---- MODULE Spec2Model ----
(***************************************************************************)
(* Dose classification and effect curve of pwiki-api (src/structure.rs).   *)
(*                                                                         *)
(* f64 values are modelled as exact fractions [n |-> numerator,            *)
(* d |-> denominator] in lowest terms with d > 0; d = 0 encodes the        *)
(* non-finite f64 values: NaN (n = 0), +inf (n = 1), -inf (n = -1).        *)
(* Rounding of finite results and the sign of zero are not modelled.       *)
(* An Option<T> is a sequence: <<>> is None and <<x>> is Some(x).          *)
(* A call that panics is a result record with panic = TRUE.                *)
(***************************************************************************)
EXTENDS Integers, Sequences, FiniteSets, TLC

\* ----------------------------------------------------------------------
\* Bounds of the model
\* ----------------------------------------------------------------------
\* amounts are 5*k (and 5*k/1000) for k in 0..MaxAmount
MaxAmount == 12
\* elapsed times are k/2 hours for k in 0..MaxElapsed
MaxElapsed == 4
\* phase ranges in hours are [0, e] for e in 0..MaxPhaseEnd
MaxPhaseEnd == 2
MaxRoutes == 2

\* ----------------------------------------------------------------------
\* f64 arithmetic
\* ----------------------------------------------------------------------
RECURSIVE GCD(_, _)
GCD(a, b) == IF b = 0 THEN a ELSE GCD(b, a % b)

Abs(x) == IF x < 0 THEN -x ELSE x

Sign(x) == IF x < 0 THEN -1 ELSE IF x = 0 THEN 0 ELSE 1

\* the fraction n/d (d > 0) in lowest terms
Rat(n, d) ==
    LET g == GCD(Abs(n), d)
    IN  [n |-> n \div g, d |-> d \div g]

F(k) == [n |-> k, d |-> 1]

NaN == [n |-> 0, d |-> 0]

Inf(s) == [n |-> s, d |-> 0]

IsNaN(x) == x.d = 0 /\ x.n = 0

IsFinite(x) == x.d > 0

FNeg(x) == [n |-> -x.n, d |-> x.d]

\* a + b
FAdd(a, b) ==
    IF IsNaN(a) \/ IsNaN(b) THEN NaN
    ELSE IF ~IsFinite(a) /\ ~IsFinite(b) THEN (IF a.n = b.n THEN a ELSE NaN)
    ELSE IF ~IsFinite(a) THEN a
    ELSE IF ~IsFinite(b) THEN b
    ELSE Rat(a.n * b.d + b.n * a.d, a.d * b.d)

\* a - b
FSub(a, b) == FAdd(a, FNeg(b))

\* a * b
FMul(a, b) ==
    IF IsNaN(a) \/ IsNaN(b) THEN NaN
    ELSE IF ~IsFinite(a) \/ ~IsFinite(b)
         THEN (IF a.n = 0 \/ b.n = 0 THEN NaN ELSE Inf(Sign(a.n) * Sign(b.n)))
    ELSE Rat(a.n * b.n, a.d * b.d)

\* a / b
FDiv(a, b) ==
    IF IsNaN(a) \/ IsNaN(b) THEN NaN
    ELSE IF ~IsFinite(a) /\ ~IsFinite(b) THEN NaN
    ELSE IF ~IsFinite(a) THEN Inf(IF b.n < 0 THEN -a.n ELSE a.n)
    ELSE IF ~IsFinite(b) THEN F(0)
    ELSE IF b.n = 0 THEN (IF a.n = 0 THEN NaN ELSE Inf(Sign(a.n)))
    ELSE Rat(Sign(b.n) * a.n * b.d, a.d * Abs(b.n))

\* a < b on finite fractions: whole parts first, then the remainders
RatLt(a, b) ==
    LET qa == a.n \div a.d
        qb == b.n \div b.d
    IN  IF qa # qb THEN qa < qb
        ELSE (a.n % a.d) * b.d < (b.n % b.d) * a.d

\* a < b
FLt(a, b) ==
    IF IsNaN(a) \/ IsNaN(b) THEN FALSE
    ELSE IF ~IsFinite(a) THEN a.n = -1 /\ b # a
    ELSE IF ~IsFinite(b) THEN b.n = 1
    ELSE RatLt(a, b)

\* a == b
FEq(a, b) == ~IsNaN(a) /\ ~IsNaN(b) /\ a = b

\* a <= b
FLe(a, b) == FLt(a, b) \/ FEq(a, b)

\* a >= b
FGe(a, b) == FLe(b, a)

\* ----------------------------------------------------------------------
\* Data model
\* ----------------------------------------------------------------------
None == <<>>

Some(x) == <<x>>

\* enum DoseUnits
DoseUnits == {"Mg", "Ml", "Ug", "G", "Invalid"}

\* enum TimeUnits
TimeUnits == {"Minutes", "Hours", "Seconds", "Invalid"}

\* enum DosageType
DosageType == {"Threshold", "Heavy", "Common", "Light", "Strong", "BelowThreshold"}

\* a DoseRange start..end
DoseRange(start, end) == [start |-> start, end |-> end]

\* a DoseTimeRange as the query layer builds it: midpoint = (start + end) / 2
\* (the wall-clock `duration` field is carried along unchanged by every
\* operation and is left out)
DoseTimeRange(start, end, units) ==
    [start |-> start, end |-> end,
     midpoint |-> FDiv(FAdd(start, end), F(2)), units |-> units]

\* Duration::default(): every phase absent
DurationDefault ==
    [afterglow |-> None, comeup |-> None, duration |-> None, offset |-> None,
     onset |-> None, peak |-> None, total |-> None]

\* DoseTimeRange::ZERO
ZERO == DoseTimeRange(F(0), F(0), "Hours")

\* result of a call that returns a value / of a call that panics
Returned(v) == [panic |-> FALSE, value |-> v]

Panicked(v) == [panic |-> TRUE, value |-> v]

\* ----------------------------------------------------------------------
\* Ingestion
\* ----------------------------------------------------------------------
\* Ingestion::new (timestamp, route and substance play no part in
\* classification by a route or in the effect curve)
IngestionNew(amount, units) == [units |-> units, amount |-> amount]

\* Ingestion::normalise_as_units: the struct update `..self.clone()` keeps
\* self.units; a pair with no arm reaches unreachable!()
normalise_as_units(self, units) ==
    LET l == self.units
        r == units
    IN  IF (l = "Mg" /\ r = "G") \/ (l = "Ug" /\ r = "Mg")
        THEN Returned([self EXCEPT !.amount = FDiv(self.amount, F(1000))])
        ELSE IF (l = "G" /\ r = "Mg") \/ (l = "Mg" /\ r = "Ug")
        THEN Returned([self EXCEPT !.amount = FMul(self.amount, F(1000))])
        ELSE IF l = "Ug" /\ r = "G"
        THEN Returned([self EXCEPT !.amount = FDiv(self.amount, F(1000000))])
        ELSE IF l = "G" /\ r = "Ug"
        THEN Returned([self EXCEPT !.amount = FMul(self.amount, F(1000000))])
        ELSE IF l = r
        THEN Returned(self)
        ELSE Panicked(self)

\* normalise_to_units with the micrograms-to-grams arm dividing by 1e3
normalise_to_units_UgToG(self, units) ==
    LET l == self.units
        r == units
    IN  IF \/ (l = "Mg" /\ r = "G") \/ (l = "Ug" /\ r = "Mg")
           \/ (l = "Ug" /\ r = "G")
        THEN Returned([self EXCEPT !.amount = FDiv(self.amount, F(1000)),
                             !.units = units])
        ELSE IF (l = "G" /\ r = "Mg") \/ (l = "Mg" /\ r = "Ug")
        THEN Returned([self EXCEPT !.amount = FMul(self.amount, F(1000)),
                             !.units = units])
        ELSE IF l = "G" /\ r = "Ug"
        THEN Returned([self EXCEPT !.amount = FMul(self.amount, F(1000000)),
                             !.units = units])
        ELSE Returned(self)

\* Ingestion::normalise_to_units: the value is the ingestion the call leaves
\* behind; a pair with no arm (equal units included) takes `_ => return`
\* before set_units
normalise_to_units(self, units) ==
    LET l == self.units
        r == units
    IN  IF (l = "Mg" /\ r = "G") \/ (l = "Ug" /\ r = "Mg")
        THEN Returned([self EXCEPT !.amount = FDiv(self.amount, F(1000)),
                             !.units = units])
        ELSE IF (l = "G" /\ r = "Mg") \/ (l = "Mg" /\ r = "Ug")
        THEN Returned([self EXCEPT !.amount = FMul(self.amount, F(1000)),
                             !.units = units])
        ELSE IF l = "Ug" /\ r = "G"
        THEN Returned([self EXCEPT !.amount = FDiv(self.amount, F(1000000)),
                             !.units = units])
        ELSE IF l = "G" /\ r = "Ug"
        THEN Returned([self EXCEPT !.amount = FMul(self.amount, F(1000000)),
                             !.units = units])
        ELSE Returned(self)

\* ----------------------------------------------------------------------
\* Classification
\* ----------------------------------------------------------------------
\* contains with the end of the range included
contains_closed(range, v) == FLe(range.start, v) /\ FLe(v, range.end)

\* std::ops::Range<f64>::contains
contains(range, v) == FLe(range.start, v) /\ FLt(v, range.end)

\* dosage_type with the threshold test placed after the light band
dosage_type_ThresholdAfterLight(self, dosage) ==
    LET dm == self.dose_metadata
        normalised == normalise_as_units(dosage, dm.units)
    IN  IF normalised.panic THEN Panicked("none")
        ELSE IF dm.heavy # None /\ FGe(dosage.amount, dm.heavy[1])
        THEN Returned("Heavy")
        ELSE IF dm.light # None /\ contains(dm.light[1], dosage.amount)
        THEN Returned("Light")
        ELSE IF dm.threshold # None /\ FEq(dosage.amount, dm.threshold[1])
        THEN Returned("Threshold")
        ELSE IF dm.common # None /\ contains(dm.common[1], dosage.amount)
        THEN Returned("Common")
        ELSE IF dm.strong # None /\ contains(dm.strong[1], dosage.amount)
        THEN Returned("Strong")
        ELSE Returned("BelowThreshold")

\* dosage_type with the heavy test placed after the bands
dosage_type_HeavyLast(self, dosage) ==
    LET dm == self.dose_metadata
        normalised == normalise_as_units(dosage, dm.units)
    IN  IF normalised.panic THEN Panicked("none")
        ELSE IF dm.threshold # None /\ FEq(dosage.amount, dm.threshold[1])
        THEN Returned("Threshold")
        ELSE IF dm.light # None /\ contains(dm.light[1], dosage.amount)
        THEN Returned("Light")
        ELSE IF dm.common # None /\ contains(dm.common[1], dosage.amount)
        THEN Returned("Common")
        ELSE IF dm.strong # None /\ contains(dm.strong[1], dosage.amount)
        THEN Returned("Strong")
        ELSE IF dm.heavy # None /\ FGe(dosage.amount, dm.heavy[1])
        THEN Returned("Heavy")
        ELSE Returned("BelowThreshold")

\* RouteOfAdministration::dosage_type: the normalised ingestion is computed
\* and dropped, the comparisons read dosage.amount
dosage_type(self, dosage) ==
    LET dm == self.dose_metadata
        normalised == normalise_as_units(dosage, dm.units)
    IN  IF normalised.panic THEN Panicked("none")
        ELSE IF dm.heavy # None /\ FGe(dosage.amount, dm.heavy[1])
        THEN Returned("Heavy")
        ELSE IF dm.threshold # None /\ FEq(dosage.amount, dm.threshold[1])
        THEN Returned("Threshold")
        ELSE IF dm.light # None /\ contains(dm.light[1], dosage.amount)
        THEN Returned("Light")
        ELSE IF dm.common # None /\ contains(dm.common[1], dosage.amount)
        THEN Returned("Common")
        ELSE IF dm.strong # None /\ contains(dm.strong[1], dosage.amount)
        THEN Returned("Strong")
        ELSE Returned("BelowThreshold")

\* ----------------------------------------------------------------------
\* Phase ranges
\* ----------------------------------------------------------------------
\* midpoint taken to be the end of the range
midpoint_end(self) == self.end

\* DoseTimeRange::midpoint: recomputed from start and end
midpoint(self) == FDiv(FAdd(self.start, self.end), F(2))

\* DoseTimeRange::as_hours
as_hours(self) ==
    IF self.units = "Minutes"
    THEN Returned([start |-> FDiv(self.start, F(60)),
                   end |-> FDiv(self.end, F(60)),
                   midpoint |-> FDiv(self.midpoint, F(60)),
                   units |-> "Hours"])
    ELSE IF self.units = "Seconds"
    THEN Returned([start |-> FDiv(self.start, F(3600)),
                   end |-> FDiv(self.end, F(3600)),
                   midpoint |-> FDiv(self.midpoint, F(3600)),
                   units |-> "Hours"])
    ELSE IF self.units = "Hours"
    THEN Returned(self)
    ELSE Panicked(self)

\* as_minutes with the midpoint field copied instead of rescaled
as_minutes_StaleMidpoint(self) ==
    IF self.units = "Seconds"
    THEN Returned([start |-> FDiv(self.start, F(60)),
                   end |-> FDiv(self.end, F(60)),
                   midpoint |-> self.midpoint,
                   units |-> "Minutes"])
    ELSE IF self.units = "Hours"
    THEN Returned([start |-> FMul(self.start, F(60)),
                   end |-> FMul(self.end, F(60)),
                   midpoint |-> self.midpoint,
                   units |-> "Minutes"])
    ELSE IF self.units = "Minutes"
    THEN Returned(self)
    ELSE Panicked(self)

\* DoseTimeRange::as_minutes
as_minutes(self) ==
    IF self.units = "Seconds"
    THEN Returned([start |-> FDiv(self.start, F(60)),
                   end |-> FDiv(self.end, F(60)),
                   midpoint |-> FDiv(self.midpoint, F(60)),
                   units |-> "Minutes"])
    ELSE IF self.units = "Hours"
    THEN Returned([start |-> FMul(self.start, F(60)),
                   end |-> FMul(self.end, F(60)),
                   midpoint |-> FMul(self.midpoint, F(60)),
                   units |-> "Minutes"])
    ELSE IF self.units = "Minutes"
    THEN Returned(self)
    ELSE Panicked(self)

\* DoseTimeRange::as_seconds
as_seconds(self) ==
    IF self.units = "Minutes"
    THEN Returned([start |-> FMul(self.start, F(60)),
                   end |-> FMul(self.end, F(60)),
                   midpoint |-> FMul(self.midpoint, F(60)),
                   units |-> "Seconds"])
    ELSE IF self.units = "Hours"
    THEN Returned([start |-> FMul(self.start, F(3600)),
                   end |-> FMul(self.end, F(3600)),
                   midpoint |-> FMul(self.midpoint, F(3600)),
                   units |-> "Seconds"])
    ELSE IF self.units = "Seconds"
    THEN Returned(self)
    ELSE Panicked(self)

\* DoseTimeRange::recalc_midpoint
recalc_midpoint(self) == [self EXCEPT !.midpoint = midpoint(self)]

\* DoseTimeRange::to_hours: the value is the range the call leaves behind
to_hours(self) ==
    IF self.units = "Minutes"
    THEN Returned([recalc_midpoint([self EXCEPT
                       !.start = FDiv(self.start, F(60)),
                       !.end = FDiv(self.end, F(60))])
                   EXCEPT !.units = "Hours"])
    ELSE IF self.units = "Seconds"
    THEN Returned([recalc_midpoint([self EXCEPT
                       !.start = FDiv(self.start, F(3600)),
                       !.end = FDiv(self.end, F(3600))])
                   EXCEPT !.units = "Hours"])
    ELSE Returned(self)

\* DoseTimeRange::to_minutes
to_minutes(self) ==
    IF self.units = "Hours"
    THEN Returned([recalc_midpoint([self EXCEPT
                       !.start = FMul(self.start, F(60)),
                       !.end = FMul(self.end, F(60))])
                   EXCEPT !.units = "Minutes"])
    ELSE IF self.units = "Seconds"
    THEN Returned([recalc_midpoint([self EXCEPT
                       !.start = FDiv(self.start, F(60)),
                       !.end = FDiv(self.end, F(60))])
                   EXCEPT !.units = "Minutes"])
    ELSE Returned(self)

\* DoseTimeRange::to_seconds
to_seconds(self) ==
    IF self.units = "Hours"
    THEN Returned([recalc_midpoint([self EXCEPT
                       !.start = FMul(self.start, F(3600)),
                       !.end = FMul(self.end, F(3600))])
                   EXCEPT !.units = "Seconds"])
    ELSE IF self.units = "Minutes"
    THEN Returned([recalc_midpoint([self EXCEPT
                       !.start = FMul(self.start, F(60)),
                       !.end = FMul(self.end, F(60))])
                   EXCEPT !.units = "Seconds"])
    ELSE Returned(self)

\* DoseTimeRange::normalise_to_units
range_normalise_to_units(self, units) ==
    IF units = "Hours" THEN to_hours(self)
    ELSE IF units = "Minutes" THEN to_minutes(self)
    ELSE IF units = "Seconds" THEN to_seconds(self)
    ELSE Returned(self)

\* ----------------------------------------------------------------------
\* Effect curve
\* ----------------------------------------------------------------------
\* lerp with the two weights exchanged
lerp_swapped(f1, f2, t) == FAdd(FMul(f1, t), FMul(f2, FSub(F(1), t)))

\* lerp: f1 * (1.0 - t) + f2 * t
lerp(f1, f2, t) == FAdd(FMul(f1, FSub(F(1), t)), FMul(f2, t))

\* the offset block followed by the afterglow block the source keeps in a
\* comment
calc_effect_offset_afterglow(self, time_since_start) ==
    LET afterglow(t) ==
            IF self.duration.afterglow = None THEN Returned(F(0))
            ELSE LET ag == as_hours(self.duration.afterglow[1])
                 IN  IF ag.panic THEN Panicked(NaN)
                     ELSE IF FLe(t, midpoint(ag.value))
                     THEN Returned(lerp(Rat(1, 4), F(0),
                                        FDiv(t, midpoint(ag.value))))
                     ELSE Returned(F(0))
    IN  IF self.duration.offset = None THEN afterglow(time_since_start)
        ELSE LET offset == as_hours(self.duration.offset[1])
             IN  IF offset.panic THEN Panicked(NaN)
                 ELSE IF FLe(time_since_start, midpoint(offset.value))
                 THEN Returned(lerp(F(1), F(0),
                                    FDiv(time_since_start,
                                         midpoint(offset.value))))
                 ELSE afterglow(FSub(time_since_start, midpoint(offset.value)))

\* calc_effect from the offset block to the final `0f64`
calc_effect_offset(self, time_since_start) ==
    IF self.duration.offset = None THEN Returned(F(0))
    ELSE LET offset == as_hours(self.duration.offset[1])
         IN  IF offset.panic THEN Panicked(NaN)
             ELSE IF FLe(time_since_start, midpoint(offset.value))
             THEN Returned(lerp(F(1), F(0),
                                FDiv(time_since_start, midpoint(offset.value))))
             ELSE Returned(F(0))

\* calc_effect from the peak block on
calc_effect_peak(self, time_since_start) ==
    IF self.duration.peak = None THEN calc_effect_offset(self, time_since_start)
    ELSE LET peak == as_hours(self.duration.peak[1])
         IN  IF peak.panic THEN Panicked(NaN)
             ELSE IF FLe(time_since_start, midpoint(peak.value))
             THEN Returned(F(1))
             ELSE calc_effect_offset(
                      self, FSub(time_since_start, midpoint(peak.value)))

\* calc_effect from the comeup block on
calc_effect_comeup(self, time_since_start) ==
    IF self.duration.comeup = None THEN calc_effect_peak(self, time_since_start)
    ELSE LET comeup == as_hours(self.duration.comeup[1])
         IN  IF comeup.panic THEN Panicked(NaN)
             ELSE IF FLe(time_since_start, midpoint(comeup.value))
             THEN Returned(lerp(F(0), F(1),
                                FDiv(time_since_start, midpoint(comeup.value))))
             ELSE calc_effect_peak(
                      self, FSub(time_since_start, midpoint(comeup.value)))

\* the onset block with its comparison turned round
calc_effect_onset_flipped(self, time_since_start) ==
    IF self.duration.onset = None THEN calc_effect_comeup(self, time_since_start)
    ELSE LET onset == as_hours(self.duration.onset[1])
         IN  IF onset.panic THEN Panicked(NaN)
             ELSE IF FGe(time_since_start, midpoint(onset.value))
             THEN Returned(F(0))
             ELSE calc_effect_comeup(
                      self, FSub(time_since_start, midpoint(onset.value)))

\* calc_effect from the onset block on
calc_effect_onset(self, time_since_start) ==
    IF self.duration.onset = None THEN calc_effect_comeup(self, time_since_start)
    ELSE LET onset == as_hours(self.duration.onset[1])
         IN  IF onset.panic THEN Panicked(NaN)
             ELSE IF FLe(time_since_start, midpoint(onset.value))
             THEN Returned(F(0))
             ELSE calc_effect_comeup(
                      self, FSub(time_since_start, midpoint(onset.value)))

\* calc_effect without the BelowThreshold early return
calc_effect_NoThresholdGuard(self, dosage, time_since_start) ==
    LET dosage_type_ == dosage_type(self, dosage)
    IN  IF dosage_type_.panic THEN Panicked(NaN)
        ELSE calc_effect_onset(self, time_since_start)

\* RouteOfAdministration::calc_effect
calc_effect(self, dosage, time_since_start) ==
    LET dosage_type_ == dosage_type(self, dosage)
    IN  IF dosage_type_.panic THEN Panicked(NaN)
        ELSE IF dosage_type_.value = "BelowThreshold" THEN Returned(F(0))
        ELSE calc_effect_onset(self, time_since_start)

\* ----------------------------------------------------------------------
\* Geometry
\* ----------------------------------------------------------------------
\* self.duration.<phase>.as_ref().unwrap_or(&DoseTimeRange::ZERO).as_seconds()
phase_as_seconds(self, phase) ==
    IF self.duration[phase] = None THEN as_seconds(ZERO)
    ELSE as_seconds(self.duration[phase][1])

\* cumulative_total summing the midpoints of the phases
cumulative_total_midpoints(self) ==
    LET onset == phase_as_seconds(self, "onset")
        comeup == phase_as_seconds(self, "comeup")
        peak == phase_as_seconds(self, "peak")
        offset == phase_as_seconds(self, "offset")
    IN  IF onset.panic \/ comeup.panic \/ peak.panic \/ offset.panic
        THEN Panicked(NaN)
        ELSE LET onset_end == midpoint(onset.value)
                 comeup_end == FAdd(midpoint(comeup.value), onset_end)
                 peak_end == FAdd(midpoint(peak.value), comeup_end)
                 offset_end == FAdd(midpoint(offset.value), peak_end)
             IN  Returned(offset_end)

\* RouteOfAdministration::cumulative_total
cumulative_total(self) ==
    LET onset == phase_as_seconds(self, "onset")
        comeup == phase_as_seconds(self, "comeup")
        peak == phase_as_seconds(self, "peak")
        offset == phase_as_seconds(self, "offset")
    IN  IF onset.panic \/ comeup.panic \/ peak.panic \/ offset.panic
        THEN Panicked(NaN)
        ELSE LET onset_end == onset.value.end
                 comeup_end == FAdd(comeup.value.end, onset_end)
                 peak_end == FAdd(peak.value.end, comeup_end)
                 offset_end == FAdd(offset.value.end, peak_end)
             IN  Returned(offset_end)

\* RouteOfAdministration::estimate_points: a vertex is <<x, y>>
estimate_points(self) ==
    LET onset_ == phase_as_seconds(self, "onset")
        comeup_ == phase_as_seconds(self, "comeup")
        peak_ == phase_as_seconds(self, "peak")
        offset_ == phase_as_seconds(self, "offset")
    IN  IF onset_.panic \/ comeup_.panic \/ peak_.panic \/ offset_.panic
        THEN Panicked(<<>>)
        ELSE LET onset == midpoint(onset_.value)
                 comeup == FAdd(midpoint(comeup_.value), onset)
                 peak == FAdd(midpoint(peak_.value), comeup)
                 offset == FAdd(midpoint(offset_.value), peak)
             IN  Returned(<<<<F(0), F(0)>>, <<onset, F(0)>>, <<comeup, F(1)>>,
                            <<peak, F(1)>>, <<offset, F(0)>>>>)

\* RouteOfAdministration::comeup_distribution
comeup_distribution(self) ==
    LET onset == phase_as_seconds(self, "onset")
        comeup == phase_as_seconds(self, "comeup")
    IN  IF onset.panic \/ comeup.panic
        THEN Panicked(<<>>)
        ELSE LET onset_start == onset.value.start
                 onset_end == onset.value.end
                 comeup_start == FAdd(comeup.value.start, onset_start)
                 comeup_end == FAdd(comeup.value.end, onset_end)
             IN  Returned(<<<<onset_start, F(0)>>, <<onset_end, F(0)>>,
                            <<comeup_end, F(1)>>, <<comeup_start, F(1)>>,
                            <<onset_start, F(0)>>>>)

\* RouteOfAdministration::offset_distribution
offset_distribution(self) ==
    LET onset == phase_as_seconds(self, "onset")
        comeup == phase_as_seconds(self, "comeup")
        peak == phase_as_seconds(self, "peak")
        offset == phase_as_seconds(self, "offset")
    IN  IF onset.panic \/ comeup.panic \/ peak.panic \/ offset.panic
        THEN Panicked(<<>>)
        ELSE LET onset_start == onset.value.start
                 onset_end == onset.value.end
                 comeup_start == FAdd(comeup.value.start, onset_start)
                 comeup_end == FAdd(comeup.value.end, onset_end)
                 peak_start == FAdd(peak.value.start, comeup_start)
                 peak_end == FAdd(peak.value.end, comeup_end)
                 offset_start == FAdd(offset.value.start, peak_start)
                 offset_end == FAdd(offset.value.end, peak_end)
             IN  Returned(<<<<peak_start, F(1)>>, <<peak_end, F(1)>>,
                            <<offset_end, F(0)>>, <<offset_start, F(0)>>,
                            <<peak_start, F(1)>>>>)

\* ----------------------------------------------------------------------
\* Substance
\* ----------------------------------------------------------------------
\* enum ROAs
ROAs ==
    {"Oral", "Sublingual", "Buccal", "Insuffilation", "Inhalation", "Smoked",
     "Vaporised", "Intravenous", "Intramuscular", "Subcutaneous", "Rectal",
     "Transdermal", "Invalid"}

\* Substance::new_ingestion: the ingestion owns a clone of the substance
new_ingestion(self, amount, units, route_of_administration) ==
    [units |-> units, amount |-> amount,
     route_of_administration |-> route_of_administration, substance |-> self]

\* positions of the profiles of kind ty in a list of routes
Matches(routes, ty) == {i \in DOMAIN routes : routes[i].ty = ty}

\* the last profile of kind ty
find_last(routes, ty) ==
    LET m == Matches(routes, ty)
    IN  IF m = {} THEN None
        ELSE Some(routes[CHOOSE i \in m : \A j \in m : j <= i])

\* routes.iter().find(|i| i.ty == ty): the first profile of kind ty
find(routes, ty) ==
    LET m == Matches(routes, ty)
    IN  IF m = {} THEN None
        ELSE Some(routes[CHOOSE i \in m : \A j \in m : i <= j])

\* Substance::dosage_type
substance_dosage_type(self, dosage) ==
    LET route_of_administration ==
            find(self.routes_of_administration, dosage.route_of_administration)
    IN  IF route_of_administration = None THEN Returned(None)
        ELSE LET r == dosage_type(route_of_administration[1], dosage)
             IN  IF r.panic THEN Panicked(None) ELSE Returned(Some(r.value))

\* Substance::route_of_administration
route_of_administration(self, roa) ==
    Returned(find(self.routes_of_administration, roa))

\* Ingestion::roa: unwrap() panics on None
roa(self) ==
    LET r == route_of_administration(self.substance,
                                     self.route_of_administration).value
    IN  IF r = None THEN Panicked(None) ELSE Returned(r[1])

\* Ingestion::dosage_type
ingestion_dosage_type(self) == substance_dosage_type(self.substance, self)

\* ----------------------------------------------------------------------
\* State
\* ----------------------------------------------------------------------
VARIABLES
    route,             \* the RouteOfAdministration the calls are made on
    dosage,            \* the Ingestion passed to them
    time_since_start,  \* argument of the last calc_effect call (hours)
    called,            \* the last operation performed
    panicked,          \* whether that call panicked
    tier,              \* DosageType returned by the last dosage_type call
    effect,            \* f64 returned by the last calc_effect call
    range,             \* the DoseTimeRange the conversions are made on
    origin,            \* the ingestion and the range as they were constructed
                       \* (conversion runs)
    arg,               \* receiver and argument of the last conversion or lookup
    result             \* value returned by the last conversion, lookup or
                       \* geometry call

vars ==
    <<route, dosage, time_since_start, called, panicked, tier, effect, range,
      origin, arg, result>>

\* ----------------------------------------------------------------------
\* Inputs
\* ----------------------------------------------------------------------
\* ingestion amounts: 0, 5, .., 5*MaxAmount and the same divided by 1000
Amounts ==
    {F(5 * k) : k \in 0..MaxAmount} \cup {Rat(5 * k, 1000) : k \in 0..MaxAmount}

\* dose metadata: each threshold and band absent or set; light and common
\* overlap on [10, 15), heavy and one of the thresholds lie inside strong
DoseMetadatas ==
    [units : DoseUnits,
     threshold : {None, Some(F(10)), Some(F(55))},
     heavy : {None, Some(F(50))},
     common : {None, Some(DoseRange(F(10), F(30)))},
     light : {None, Some(DoseRange(F(5), F(15)))},
     strong : {None, Some(DoseRange(F(30), F(60)))}]

\* routes of the classification runs: any dose metadata, no phases
ClassifyRoutes ==
    {[dose_metadata |-> dm, duration |-> DurationDefault] : dm \in DoseMetadatas}

\* phase ranges: [0, e] hours, one range in minutes, one in seconds, and one
\* whose unit is Invalid (the fields are public)
DoseTimeRanges ==
    {DoseTimeRange(F(0), F(e), "Hours") : e \in 0..MaxPhaseEnd}
    \cup {DoseTimeRange(F(60), F(180), "Minutes"),
          DoseTimeRange(F(0), F(3600), "Seconds"),
          DoseTimeRange(F(0), F(1), "Invalid")}

Phases == {None} \cup {Some(r) : r \in DoseTimeRanges}

\* routes of the effect runs: doses in mg with a common band, any phases
EffectRoutes ==
    {[dose_metadata |->
          [units |-> "Mg", threshold |-> None, heavy |-> None,
           common |-> Some(DoseRange(F(10), F(30))), light |-> None,
           strong |-> None],
      duration |->
          [DurationDefault EXCEPT !.onset = on, !.comeup = cu, !.peak = pk,
                                  !.offset = of]] :
        on \in Phases, cu \in Phases, pk \in Phases, of \in Phases}

\* ingestions of the effect runs: below the band, inside it, and in a unit
\* with no conversion to mg
EffectIngestions ==
    {IngestionNew(F(5), "Mg"), IngestionNew(F(20), "Mg"),
     IngestionNew(F(20), "Ml")}

\* elapsed times: 0, 1/2, .., MaxElapsed/2 hours
ElapsedTimes == {Rat(k, 2) : k \in 0..MaxElapsed}

\* ----------------------------------------------------------------------
\* Operations
\* ----------------------------------------------------------------------
\* dosage.set_amount(amount)
SetAmount(amount) ==
    /\ dosage' = [dosage EXCEPT !.amount = amount]
    /\ called' = "set_amount"
    /\ panicked' = FALSE
    /\ tier' = "none"
    /\ effect' = F(0)
    /\ time_since_start' = F(0)
    /\ arg' = None
    /\ result' = None
    /\ UNCHANGED <<route, range, origin>>

\* dosage.set_units(units)
SetUnits(units) ==
    /\ dosage' = [dosage EXCEPT !.units = units]
    /\ called' = "set_units"
    /\ panicked' = FALSE
    /\ tier' = "none"
    /\ effect' = F(0)
    /\ time_since_start' = F(0)
    /\ arg' = None
    /\ result' = None
    /\ UNCHANGED <<route, range, origin>>

\* route.dosage_type(&dosage)
DosageTypeCall ==
    LET r == dosage_type(route, dosage)
    IN  /\ called' = "dosage_type"
        /\ panicked' = r.panic
        /\ tier' = r.value
        /\ effect' = F(0)
        /\ time_since_start' = F(0)
        /\ arg' = None
        /\ result' = None
        /\ UNCHANGED <<route, dosage, range, origin>>

\* route.calc_effect(dosage, t)
CalcEffectCall(t) ==
    LET r == calc_effect(route, dosage, t)
    IN  /\ called' = "calc_effect"
        /\ panicked' = r.panic
        /\ effect' = r.value
        /\ tier' = "none"
        /\ time_since_start' = t
        /\ arg' = None
        /\ result' = None
        /\ UNCHANGED <<route, dosage, range, origin>>

\* no call made yet on the ingestion Substance::new_ingestion returned
Fresh ==
    /\ called = "new_ingestion"
    /\ panicked = FALSE
    /\ tier = "none"
    /\ effect = F(0)
    /\ time_since_start = F(0)
    /\ arg = None
    /\ result = None

\* ----------------------------------------------------------------------
\* Classification runs
\* ----------------------------------------------------------------------
Init ==
    /\ route \in ClassifyRoutes
    /\ dosage \in {IngestionNew(a, u) : a \in Amounts, u \in DoseUnits}
    /\ range = ZERO
    /\ origin = None
    /\ Fresh

Next ==
    \/ \E a \in Amounts : SetAmount(a)
    \/ \E u \in DoseUnits : SetUnits(u)
    \/ DosageTypeCall

Spec == Init /\ [][Next]_vars

\* ----------------------------------------------------------------------
\* Effect runs
\* ----------------------------------------------------------------------
InitEffect ==
    /\ route \in EffectRoutes
    /\ dosage \in EffectIngestions
    /\ range = ZERO
    /\ origin = None
    /\ Fresh

NextEffect ==
    \/ DosageTypeCall
    \/ \E t \in ElapsedTimes : CalcEffectCall(t)

SpecEffect == InitEffect /\ [][NextEffect]_vars

\* ----------------------------------------------------------------------
\* Classification properties
\* ----------------------------------------------------------------------
\* the units with a conversion between them
MassUnits == {"Mg", "Ug", "G"}

\* the ingestion with its amount converted to `units` and its unit set to it
Converted(ing, units) ==
    [units |-> units, amount |-> normalise_as_units(ing, units).value.amount]

\* dosage_type has returned a tier for an ingestion given in the route's unit
ClassifiedInRouteUnit ==
    /\ called = "dosage_type"
    /\ dosage.units = route.dose_metadata.units

\* the heavy test / the threshold test matches the amount
HeavyMatches ==
    /\ route.dose_metadata.heavy # None
    /\ FGe(dosage.amount, route.dose_metadata.heavy[1])

ThresholdMatches ==
    /\ route.dose_metadata.threshold # None
    /\ FEq(dosage.amount, route.dose_metadata.threshold[1])

\* the band is set and start <= amount < end
InBand(band) ==
    /\ band # None
    /\ FLe(band[1].start, dosage.amount)
    /\ FLt(dosage.amount, band[1].end)

\* C1: for an ingestion whose unit differs from the route's dose unit and
\* converts to it (mg, ug, g), dosage_type returns the tier it returns for
\* the same ingestion with the amount converted and the unit set to the
\* route's unit.
C1_ClassifiesConvertedAmount ==
    ( /\ called = "dosage_type"
      /\ dosage.units # route.dose_metadata.units
      /\ dosage.units \in MassUnits
      /\ route.dose_metadata.units \in MassUnits )
    => /\ ~panicked
       /\ tier = dosage_type(
                     route, Converted(dosage, route.dose_metadata.units)).value

\* C2: with threshold set and an amount (in the route's unit) equal to it,
\* heavy unset or above the amount, dosage_type returns Threshold, also when
\* the amount lies in a band.
C2_ThresholdBeforeBands ==
    ( /\ ClassifiedInRouteUnit
      /\ ThresholdMatches
      /\ ~HeavyMatches )
    => ~panicked /\ tier = "Threshold"

\* C2 witness: threshold = 10 inside light = [5, 15), amount 10: Threshold
C2_Witness ==
    /\ ClassifiedInRouteUnit
    /\ dosage.amount = F(10)
    /\ route.dose_metadata.threshold = Some(F(10))
    /\ InBand(route.dose_metadata.light)
    /\ InBand(route.dose_metadata.common)
    /\ tier = "Threshold"

\* C3: with heavy set and an amount (in the route's unit) >= heavy,
\* dosage_type returns Heavy whatever the threshold and the bands are.
C3_HeavyFirst ==
    (ClassifiedInRouteUnit /\ HeavyMatches)
    => ~panicked /\ tier = "Heavy"

\* C3 witness: heavy = 50, strong = [30, 60), threshold = 55, amount 55: Heavy
C3_Witness ==
    /\ ClassifiedInRouteUnit
    /\ dosage.amount = F(55)
    /\ route.dose_metadata.heavy = Some(F(50))
    /\ InBand(route.dose_metadata.strong)
    /\ ThresholdMatches
    /\ tier = "Heavy"

\* C4: when neither heavy nor threshold matches, dosage_type returns the
\* first of Light, Common, Strong whose band is set and holds the amount
\* (start <= amount < end), and BelowThreshold exactly when none does.
C4_FirstBand ==
    ( /\ ClassifiedInRouteUnit
      /\ ~HeavyMatches
      /\ ~ThresholdMatches )
    => /\ ~panicked
       /\ tier = "Light" <=> InBand(route.dose_metadata.light)
       /\ tier = "Common" <=>
              /\ ~InBand(route.dose_metadata.light)
              /\ InBand(route.dose_metadata.common)
       /\ tier = "Strong" <=>
              /\ ~InBand(route.dose_metadata.light)
              /\ ~InBand(route.dose_metadata.common)
              /\ InBand(route.dose_metadata.strong)
       /\ tier = "BelowThreshold" <=>
              /\ ~InBand(route.dose_metadata.light)
              /\ ~InBand(route.dose_metadata.common)
              /\ ~InBand(route.dose_metadata.strong)

\* C4 witness: amount 15 is the end of light = [5, 15) and lies in
\* common = [10, 30): Common
C4_Witness ==
    /\ ClassifiedInRouteUnit
    /\ ~HeavyMatches
    /\ ~ThresholdMatches
    /\ route.dose_metadata.light # None
    /\ dosage.amount = route.dose_metadata.light[1].end
    /\ tier = "Common"

\* ----------------------------------------------------------------------
\* Effect curve properties
\* ----------------------------------------------------------------------
\* the phases calc_effect walks, in its order
PhaseNames == <<"onset", "comeup", "peak", "offset">>

Present(i) == route.duration[PhaseNames[i]] # None

\* every phase of the walk that is present has a unit of time
ValidPhaseUnits ==
    \A i \in 1..4 :
        Present(i) =>
            route.duration[PhaseNames[i]][1].units \in {"Minutes", "Hours", "Seconds"}

\* hours in one unit of time
HoursPer(units) ==
    IF units = "Minutes" THEN Rat(1, 60)
    ELSE IF units = "Seconds" THEN Rat(1, 3600)
    ELSE F(1)

\* midpoint of phase i in hours, 0 for an absent phase
Mid(i) ==
    IF Present(i)
    THEN LET r == route.duration[PhaseNames[i]][1]
         IN  FMul(FDiv(FAdd(r.start, r.end), F(2)), HoursPer(r.units))
    ELSE F(0)

\* sum of the midpoints of phases 1..i
RECURSIVE Cum(_)
Cum(i) == IF i = 0 THEN F(0) ELSE FAdd(Cum(i - 1), Mid(i))

\* the elapsed time left when the walk reaches phase i
Remaining(i) == FSub(time_since_start, Cum(i - 1))

\* phase i is the first present phase whose end the elapsed time has not
\* passed
Resolves(i) ==
    /\ Present(i)
    /\ FLe(time_since_start, Cum(i))
    /\ \A j \in 1..(i - 1) : Present(j) => FLt(Cum(j), time_since_start)

\* value at the end of onset, comeup, peak, offset
EndValue == <<F(0), F(1), F(1), F(0)>>

\* the dose is classified and its tier is not BelowThreshold
DoseActive ==
    LET r == dosage_type(route, dosage)
    IN  ~r.panic /\ r.value # "BelowThreshold"

\* calc_effect was called on a route whose phases have units of time with a
\* dose that is not BelowThreshold
WalkDone ==
    /\ called = "calc_effect"
    /\ ValidPhaseUnits
    /\ DoseActive

\* C5: whenever dosage_type gives BelowThreshold, calc_effect returns 0 at
\* every elapsed time, whatever the phases are.
C5_BelowThresholdIsZero ==
    ( /\ called = "calc_effect"
      /\ dosage_type(route, dosage) = Returned("BelowThreshold") )
    => ~panicked /\ effect = F(0)

\* C5 witness: a BelowThreshold dose at elapsed 0 on a route whose first
\* phase is peak (any other dose gets 1 there)
C5_Witness ==
    /\ called = "calc_effect"
    /\ dosage_type(route, dosage) = Returned("BelowThreshold")
    /\ route.duration.onset = None
    /\ route.duration.comeup = None
    /\ route.duration.peak # None
    /\ time_since_start = F(0)
    /\ effect = F(0)

\* C6: for every route profile, zero-length phases included, every ingestion
\* and every elapsed time, calc_effect returns a defined v with 0 <= v <= 1.
C6_EffectInUnitInterval ==
    ( /\ called = "calc_effect"
      /\ ValidPhaseUnits
      /\ ~dosage_type(route, dosage).panic )
    => /\ ~panicked
       /\ IsFinite(effect)
       /\ FLe(F(0), effect)
       /\ FLe(effect, F(1))

\* C7: for a dose that is not BelowThreshold, an elapsed time exactly on the
\* end of a phase (remaining time = the phase's midpoint) is resolved by that
\* phase and yields its end value: 0 for onset, 1 for comeup and peak, 0 for
\* offset.
C7_BoundaryGivesEndValue ==
    WalkDone =>
        \A i \in 1..4 :
            (Resolves(i) /\ FEq(Remaining(i), Mid(i)))
            => ~panicked /\ effect = EndValue[i]

\* C8: for a dose that is not BelowThreshold, with r the remaining time:
\* onset gives 0, comeup of midpoint m > 0 gives r/m, peak gives 1, offset
\* of midpoint m > 0 gives 1 - r/m, and past all phases the value is 0.
C8_Interpolation ==
    WalkDone =>
        /\ ~panicked
        /\ Resolves(1) => effect = F(0)
        /\ (Resolves(2) /\ FLt(F(0), Mid(2)))
               => effect = FDiv(Remaining(2), Mid(2))
        /\ Resolves(3) => effect = F(1)
        /\ (Resolves(4) /\ FLt(F(0), Mid(4)))
               => effect = FSub(F(1), FDiv(Remaining(4), Mid(4)))
        /\ FLt(Cum(4), time_since_start) => effect = F(0)

\* C8 witness: comeup [0, 2) hours, elapsed 0.5 h, intensity 0.5
C8_Witness ==
    /\ WalkDone
    /\ route.duration.onset = None
    /\ route.duration.comeup = Some(DoseTimeRange(F(0), F(2), "Hours"))
    /\ time_since_start = Rat(1, 2)
    /\ effect = Rat(1, 2)

\* the route with phase `name` present and of zero length
WithZeroPhase(name, units) ==
    [route EXCEPT !.duration[name] = Some(DoseTimeRange(F(0), F(0), units))]

\* the call just made gives the same result on every route that differs
\* only in having an absent phase present with start = end = 0
AbsentEqualsZeroLength ==
    \A i \in 1..4 :
        ~Present(i) =>
            \A u \in {"Minutes", "Hours", "Seconds"} :
                calc_effect(WithZeroPhase(PhaseNames[i], u), dosage,
                            time_since_start)
                    = [panic |-> panicked, value |-> effect]

\* C9: for every route, ingestion and elapsed time, calc_effect with one of
\* onset, comeup, peak, offset absent returns what it returns with that
\* phase present and start = end = 0.
C9_AbsentEqualsZeroLength ==
    called = "calc_effect" => AbsentEqualsZeroLength

\* C9 amended: the same for every elapsed time greater than 0.
C9_AbsentEqualsZeroLengthAfterStart ==
    (called = "calc_effect" /\ FLt(F(0), time_since_start))
    => AbsentEqualsZeroLength

\* C9 witness: elapsed 1 h, onset and comeup absent, the walk ends in a
\* later phase with a value above 0
C9_Witness ==
    /\ WalkDone
    /\ time_since_start = F(1)
    /\ ~Present(1)
    /\ ~Present(2)
    /\ ~panicked
    /\ FLt(F(0), effect)

\* onset absent, comeup [0, 1) hours, a dose that is not BelowThreshold,
\* elapsed 0.5 h
AbsentOnsetCase ==
    /\ called = "calc_effect"
    /\ DoseActive
    /\ route.duration.onset = None
    /\ route.duration.comeup = Some(DoseTimeRange(F(0), F(1), "Hours"))
    /\ time_since_start = Rat(1, 2)

\* C10: onset absent, comeup [0, 1) hours, dose not BelowThreshold:
\* calc_effect at elapsed 0.5 h returns 0.5.
C10_AbsentOnsetHalf ==
    AbsentOnsetCase => ~panicked /\ effect = Rat(1, 2)

\* C10 amended: calc_effect at elapsed 0.5 h returns 1.0 (0.5 h is the
\* comeup midpoint, the end of the comeup ramp).
C10_AbsentOnsetOne ==
    AbsentOnsetCase => ~panicked /\ effect = F(1)

\* C10 witness
C10_Witness == AbsentOnsetCase /\ effect = F(1)

\* ----------------------------------------------------------------------
\* Geometry runs
\* ----------------------------------------------------------------------
\* phase ranges of the geometry runs: in hours [0, 0], [0, MaxPhaseEnd] and
\* the range of length 0 at MaxPhaseEnd, one range in minutes, and one whose
\* unit is Invalid
GeometryRanges ==
    {DoseTimeRange(F(s), F(MaxPhaseEnd), "Hours") : s \in {0, MaxPhaseEnd}}
    \cup {DoseTimeRange(F(0), F(0), "Hours"),
          DoseTimeRange(F(60), F(180), "Minutes"),
          DoseTimeRange(F(0), F(1), "Invalid")}

GeometryPhases == {None} \cup {Some(r) : r \in GeometryRanges}

\* the three phases no operation of the route reads: all absent, an
\* afterglow whose unit is Invalid, and all three set
UnreadPhases ==
    {[afterglow |-> None, duration |-> None, total |-> None],
     [afterglow |-> Some(DoseTimeRange(F(0), F(1), "Invalid")),
      duration |-> None, total |-> None],
     [afterglow |-> Some(DoseTimeRange(F(30), F(90), "Minutes")),
      duration |-> Some(DoseTimeRange(F(4), F(8), "Hours")),
      total |-> Some(DoseTimeRange(F(0), F(1), "Invalid"))]}

\* routes of the geometry runs: doses in mg with a common band
GeometryRoutes ==
    {[dose_metadata |->
          [units |-> "Mg", threshold |-> None, heavy |-> None,
           common |-> Some(DoseRange(F(10), F(30))), light |-> None,
           strong |-> None],
      duration |->
          [afterglow |-> un.afterglow, comeup |-> cu, duration |-> un.duration,
           offset |-> of, onset |-> on, peak |-> pk, total |-> un.total]] :
        on \in GeometryPhases, cu \in GeometryPhases, pk \in GeometryPhases,
        of \in GeometryPhases, un \in UnreadPhases}

\* elapsed times of the geometry runs (hours)
GeometryTimes == {F(0), Rat(1, 2), F(3)}

\* route.cumulative_total()
CumulativeTotalCall ==
    LET r == cumulative_total(route)
    IN  /\ called' = "cumulative_total"
        /\ panicked' = r.panic
        /\ result' = r.value
        /\ tier' = "none"
        /\ effect' = F(0)
        /\ time_since_start' = F(0)
        /\ UNCHANGED <<route, dosage, range, origin, arg>>

\* route.estimate_points()
EstimatePointsCall ==
    LET r == estimate_points(route)
    IN  /\ called' = "estimate_points"
        /\ panicked' = r.panic
        /\ result' = r.value
        /\ tier' = "none"
        /\ effect' = F(0)
        /\ time_since_start' = F(0)
        /\ UNCHANGED <<route, dosage, range, origin, arg>>

\* route.comeup_distribution()
ComeupDistributionCall ==
    LET r == comeup_distribution(route)
    IN  /\ called' = "comeup_distribution"
        /\ panicked' = r.panic
        /\ result' = r.value
        /\ tier' = "none"
        /\ effect' = F(0)
        /\ time_since_start' = F(0)
        /\ UNCHANGED <<route, dosage, range, origin, arg>>

\* route.offset_distribution()
OffsetDistributionCall ==
    LET r == offset_distribution(route)
    IN  /\ called' = "offset_distribution"
        /\ panicked' = r.panic
        /\ result' = r.value
        /\ tier' = "none"
        /\ effect' = F(0)
        /\ time_since_start' = F(0)
        /\ UNCHANGED <<route, dosage, range, origin, arg>>

InitGeometry ==
    /\ route \in GeometryRoutes
    /\ dosage \in {IngestionNew(F(5), "Mg"), IngestionNew(F(20), "Mg")}
    /\ range = ZERO
    /\ origin = None
    /\ Fresh

NextGeometry ==
    \/ CumulativeTotalCall
    \/ EstimatePointsCall
    \/ ComeupDistributionCall
    \/ OffsetDistributionCall
    \/ \E t \in GeometryTimes : CalcEffectCall(t)

SpecGeometry == InitGeometry /\ [][NextGeometry]_vars

\* ----------------------------------------------------------------------
\* Geometry properties
\* ----------------------------------------------------------------------
\* x-coordinate of the fifth vertex of estimate_points()
LastVertexX == estimate_points(route).value[5][1]

\* every phase of the walk that is present has start = end
ZeroLengthPhases ==
    \A i \in 1..4 :
        Present(i) =>
            LET r == route.duration[PhaseNames[i]][1]
            IN  FEq(r.start, r.end)

\* C11: for every route profile, cumulative_total() equals the x-coordinate
\* of the last (fifth) vertex returned by estimate_points(); the two calls
\* panic on the same routes.
C11_TotalIsLastVertex ==
    called = "cumulative_total" =>
        /\ panicked = estimate_points(route).panic
        /\ ~panicked => FEq(result, LastVertexX)

\* C11 as amended: cumulative_total() sums the ends of the phases and the
\* last vertex sums their midpoints, so for phases with 0 <= start <= end
\* cumulative_total() is at least the last x-coordinate, and equal to it
\* exactly when every present phase has start = end.
C11_TotalAtLeastLastVertex ==
    called = "cumulative_total" =>
        /\ panicked = estimate_points(route).panic
        /\ ~panicked =>
               /\ FGe(result, LastVertexX)
               /\ FEq(result, LastVertexX) <=> ZeroLengthPhases

\* C11 witness: cumulative_total() returned on a route with all four phases
\* present, beyond the last vertex
C11_Witness ==
    /\ called = "cumulative_total"
    /\ ~panicked
    /\ \A i \in 1..4 : Present(i)
    /\ FLt(F(0), LastVertexX)
    /\ FLt(LastVertexX, result)

\* ----------------------------------------------------------------------
\* Conversion runs
\* ----------------------------------------------------------------------
\* amounts of the conversion runs
ConvertAmounts == {F(0), F(5), F(60), Rat(1, 4), Rat(637, 10)}

ConvertIngestions ==
    {IngestionNew(a, u) : a \in ConvertAmounts, u \in DoseUnits}

\* dosage.normalise_to_units(units)
NormaliseToUnitsCall(units) ==
    LET r == normalise_to_units(dosage, units)
    IN  /\ called' = "normalise_to_units"
        /\ panicked' = r.panic
        /\ dosage' = r.value
        /\ arg' = [self |-> dosage, units |-> units]
        /\ result' = None
        /\ UNCHANGED <<route, range, origin, tier, effect, time_since_start>>

\* dosage.normalise_as_units(units)
NormaliseAsUnitsCall(units) ==
    LET r == normalise_as_units(dosage, units)
    IN  /\ called' = "normalise_as_units"
        /\ panicked' = r.panic
        /\ arg' = [self |-> dosage, units |-> units]
        /\ result' = IF r.panic THEN None ELSE r.value
        /\ UNCHANGED <<route, dosage, range, origin, tier, effect,
                       time_since_start>>

\* range = range.as_hours() (as_minutes, as_seconds): the range returned
\* takes the place of the receiver unless the call panics
AsUnitsCall(units) ==
    LET r == IF units = "Hours" THEN as_hours(range)
             ELSE IF units = "Minutes" THEN as_minutes(range)
             ELSE as_seconds(range)
    IN  /\ called' = IF units = "Hours" THEN "as_hours"
                     ELSE IF units = "Minutes" THEN "as_minutes"
                     ELSE "as_seconds"
        /\ panicked' = r.panic
        /\ range' = r.value
        /\ arg' = [self |-> range, units |-> units]
        /\ result' = IF r.panic THEN None ELSE r.value
        /\ UNCHANGED <<route, dosage, origin, tier, effect, time_since_start>>

\* range.to_hours() (to_minutes, to_seconds)
ToUnitsCall(units) ==
    LET r == IF units = "Hours" THEN to_hours(range)
             ELSE IF units = "Minutes" THEN to_minutes(range)
             ELSE to_seconds(range)
    IN  /\ called' = IF units = "Hours" THEN "to_hours"
                     ELSE IF units = "Minutes" THEN "to_minutes"
                     ELSE "to_seconds"
        /\ panicked' = r.panic
        /\ range' = r.value
        /\ arg' = [self |-> range, units |-> units]
        /\ result' = None
        /\ UNCHANGED <<route, dosage, origin, tier, effect, time_since_start>>

\* range.normalise_to_units(units)
RangeNormaliseToUnitsCall(units) ==
    LET r == range_normalise_to_units(range, units)
    IN  /\ called' = "range_normalise_to_units"
        /\ panicked' = r.panic
        /\ range' = r.value
        /\ arg' = [self |-> range, units |-> units]
        /\ result' = None
        /\ UNCHANGED <<route, dosage, origin, tier, effect, time_since_start>>

InitConvert ==
    /\ route = None
    /\ dosage \in ConvertIngestions
    /\ range \in DoseTimeRanges
    /\ origin = [dosage |-> dosage, range |-> range]
    /\ Fresh

NextConvert ==
    \/ \E u \in DoseUnits : NormaliseToUnitsCall(u)
    \/ \E u \in DoseUnits : NormaliseAsUnitsCall(u)
    \/ \E u \in {"Hours", "Minutes", "Seconds"} : AsUnitsCall(u)
    \/ \E u \in {"Hours", "Minutes", "Seconds"} : ToUnitsCall(u)
    \/ \E u \in TimeUnits : RangeNormaliseToUnitsCall(u)

SpecConvert == InitConvert /\ [][NextConvert]_vars

\* ----------------------------------------------------------------------
\* Conversion properties
\* ----------------------------------------------------------------------
\* the units of time with a conversion between them
ValidTimeUnits == {"Hours", "Minutes", "Seconds"}

\* the operations that convert a range
RangeConversions ==
    {"as_hours", "as_minutes", "as_seconds", "to_hours", "to_minutes",
     "to_seconds", "range_normalise_to_units"}

\* C12: converting an amount from A to B and back to A (mass units mg, ug, g
\* through Ingestion::normalise_to_units; time units through the as_* and
\* to_* conversions of a range) restores the original amount, for a range the
\* original start, end and unit, and so does every longer chain of
\* conversions that ends in the starting unit. Amounts are exact fractions:
\* the property is the one the factors of the conversions decide, rounding
\* of f64 left aside.
C12_RoundTrip ==
    /\ ( /\ origin.dosage.units \in MassUnits
         /\ dosage.units = origin.dosage.units )
       => FEq(dosage.amount, origin.dosage.amount)
    /\ ( /\ origin.range.units \in ValidTimeUnits
         /\ range.units = origin.range.units )
       => /\ FEq(range.start, origin.range.start)
          /\ FEq(range.end, origin.range.end)
          /\ FEq(range.midpoint, origin.range.midpoint)

\* C12 witness: a conversion has just brought a non-zero amount back to the
\* unit it started in while the range is in another unit than its own, or
\* the other way round
C12_Witness ==
    \/ /\ called = "normalise_to_units"
       /\ arg.self.units \in MassUnits
       /\ arg.self.units # dosage.units
       /\ dosage.units = origin.dosage.units
       /\ ~FEq(dosage.amount, F(0))
       /\ origin.range.units \in ValidTimeUnits
       /\ range.units # origin.range.units
    \/ /\ called \in RangeConversions
       /\ arg.self.units \in ValidTimeUnits
       /\ arg.self.units # range.units
       /\ range.units = origin.range.units
       /\ ~FEq(range.end, F(0))
       /\ origin.dosage.units \in MassUnits
       /\ dosage.units # origin.dosage.units

\* a pair of dose units with no conversion: from or to Invalid, or between
\* Ml and a unit of mass
UnsupportedDoseUnits(l, r) ==
    \/ l = "Invalid"
    \/ r = "Invalid"
    \/ (l = "Ml" /\ r \in MassUnits)
    \/ (l \in MassUnits /\ r = "Ml")

\* C13: every conversion asked to convert from or to Invalid, or between Ml
\* and a unit of mass (Ingestion::normalise_to_units, normalise_as_units,
\* the as_*, to_* and normalise_to_units conversions of a range), ends in a
\* failure of the call; none returns normally with value and unit as they
\* were. The signatures have no error value: the failure is a panic.
C13_UnsupportedFails ==
    /\ ( /\ called \in {"normalise_to_units", "normalise_as_units"}
         /\ UnsupportedDoseUnits(arg.self.units, arg.units) )
       => panicked
    /\ ( /\ called \in RangeConversions
         /\ (arg.self.units = "Invalid" \/ arg.units = "Invalid") )
       => panicked

\* ----------------------------------------------------------------------
\* Lookup runs
\* ----------------------------------------------------------------------
\* the route kinds of the lookup runs
LookupKinds == ROAs \cap {"Oral", "Sublingual", "Invalid"}

\* profiles of the lookup runs: doses in mg, [10, 30) either the common or
\* the strong band, no phases
LookupProfiles ==
    {[ty |-> ty,
      dose_metadata |->
          [units |-> "Mg", threshold |-> None, heavy |-> None, common |-> c,
           light |-> None, strong |-> st],
      duration |-> DurationDefault] :
        ty \in LookupKinds,
        <<c, st>> \in {<<Some(DoseRange(F(10), F(30))), None>>,
                       <<None, Some(DoseRange(F(10), F(30)))>>}}

\* the lists of at most n profiles
RECURSIVE RouteLists(_)
RouteLists(n) ==
    IF n = 0 THEN {<<>>}
    ELSE RouteLists(n - 1)
         \cup {Append(l, p) : l \in RouteLists(n - 1), p \in LookupProfiles}

\* substances of the lookup runs: up to MaxRoutes profiles, kinds repeated
\* or missing
Substances ==
    {[routes_of_administration |-> l] : l \in RouteLists(MaxRoutes)}

\* substance.dosage_type(&dosage)
SubstanceDosageTypeCall ==
    LET r == substance_dosage_type(dosage.substance, dosage)
    IN  /\ called' = "substance_dosage_type"
        /\ panicked' = r.panic
        /\ arg' = [roa |-> dosage.route_of_administration]
        /\ result' = r.value
        /\ UNCHANGED <<route, dosage, range, origin, tier, effect,
                       time_since_start>>

\* dosage.dosage_type()
IngestionDosageTypeCall ==
    LET r == ingestion_dosage_type(dosage)
    IN  /\ called' = "ingestion_dosage_type"
        /\ panicked' = r.panic
        /\ arg' = [roa |-> dosage.route_of_administration]
        /\ result' = r.value
        /\ UNCHANGED <<route, dosage, range, origin, tier, effect,
                       time_since_start>>

\* substance.route_of_administration(kind)
RouteOfAdministrationCall(kind) ==
    LET r == route_of_administration(dosage.substance, kind)
    IN  /\ called' = "route_of_administration"
        /\ panicked' = r.panic
        /\ arg' = [roa |-> kind]
        /\ result' = r.value
        /\ UNCHANGED <<route, dosage, range, origin, tier, effect,
                       time_since_start>>

\* dosage.roa(): the profile returned is kept as Some(profile)
RoaCall ==
    LET r == roa(dosage)
    IN  /\ called' = "roa"
        /\ panicked' = r.panic
        /\ arg' = [roa |-> dosage.route_of_administration]
        /\ result' = IF r.panic THEN None ELSE Some(r.value)
        /\ UNCHANGED <<route, dosage, range, origin, tier, effect,
                       time_since_start>>

InitLookup ==
    /\ route = None
    /\ dosage \in {new_ingestion(s, a, u, k) :
                       s \in Substances, a \in {F(5), F(20)},
                       u \in {"Mg", "Ml"}, k \in LookupKinds}
    /\ range = ZERO
    /\ origin = None
    /\ Fresh

NextLookup ==
    \/ SubstanceDosageTypeCall
    \/ IngestionDosageTypeCall
    \/ \E k \in LookupKinds : RouteOfAdministrationCall(k)
    \/ RoaCall

SpecLookup == InitLookup /\ [][NextLookup]_vars

\* ----------------------------------------------------------------------
\* Lookup properties
\* ----------------------------------------------------------------------
\* positions of the profiles of the kind the last call looked up
Found == Matches(dosage.substance.routes_of_administration, arg.roa)

\* the operations that look a route up
Lookups ==
    {"substance_dosage_type", "ingestion_dosage_type",
     "route_of_administration", "roa"}

\* C14: for an ingestion whose route is not among its substance's routes,
\* Ingestion::dosage_type, Substance::dosage_type,
\* Substance::route_of_administration and Ingestion::roa return an absent
\* result and never abort; when the route is documented (once, with a dose
\* the profile can classify) the classification result is present and is
\* that profile's dosage_type.
C14_RouteNotFoundIsAbsent ==
    /\ (called \in Lookups /\ Found = {}) => (~panicked /\ result = None)
    /\ ( /\ called \in {"substance_dosage_type", "ingestion_dosage_type"}
         /\ Cardinality(Found) = 1 )
       => LET p == dosage.substance.routes_of_administration[
                       CHOOSE i \in Found : TRUE]
              r == dosage_type(p, dosage)
          IN  ~r.panic => (~panicked /\ result = Some(r.value))

\* the profile the last lookup has to use if the first (last) match wins
FirstFound ==
    dosage.substance.routes_of_administration[
        CHOOSE i \in Found : \A j \in Found : i <= j]

LastFound ==
    dosage.substance.routes_of_administration[
        CHOOSE i \in Found : \A j \in Found : j <= i]

\* what the lookups return when they use profile p
LookupUses(p) ==
    /\ called = "route_of_administration" => (~panicked /\ result = Some(p))
    /\ called = "substance_dosage_type" =>
           LET r == dosage_type(p, dosage)
           IN  /\ panicked = r.panic
               /\ ~panicked => result = Some(r.value)

\* C15: when a substance's route list holds several profiles of the kind
\* looked up, Substance::route_of_administration and Substance::dosage_type
\* use the profile that appears last in the list.
C15_LastMatchWins ==
    (called \in Lookups /\ Found # {}) => LookupUses(LastFound)

\* C15 as amended: they use the profile that appears first in the list.
C15_FirstMatchWins ==
    (called \in Lookups /\ Found # {}) => LookupUses(FirstFound)

\* C15 witness: Substance::dosage_type classified a dose by the first of two
\* profiles of its kind, and the second would have given another tier
C15_Witness ==
    /\ called = "substance_dosage_type"
    /\ Cardinality(Found) > 1
    /\ ~panicked
    /\ result = Some(dosage_type(FirstFound, dosage).value)
    /\ result # Some(dosage_type(LastFound, dosage).value)

\* ----------------------------------------------------------------------
\* Unread phases
\* ----------------------------------------------------------------------
\* the route with afterglow, duration and total taken away
WithoutUnread(r) ==
    [r EXCEPT !.duration.afterglow = None, !.duration.duration = None,
              !.duration.total = None]

\* C16: two route profiles that differ only in their afterglow, duration or
\* total phases give the same calc_effect for every ingestion and elapsed
\* time and the same cumulative_total, estimate_points, comeup_distribution
\* and offset_distribution: each call returns what it returns on the route
\* with the three phases absent.
C16_AfterglowNeverConsumed ==
    /\ called = "calc_effect" =>
           [panic |-> panicked, value |-> effect]
               = calc_effect(WithoutUnread(route), dosage, time_since_start)
    /\ called = "cumulative_total" =>
           [panic |-> panicked, value |-> result]
               = cumulative_total(WithoutUnread(route))
    /\ called = "estimate_points" =>
           [panic |-> panicked, value |-> result]
               = estimate_points(WithoutUnread(route))
    /\ called = "comeup_distribution" =>
           [panic |-> panicked, value |-> result]
               = comeup_distribution(WithoutUnread(route))
    /\ called = "offset_distribution" =>
           [panic |-> panicked, value |-> result]
               = offset_distribution(WithoutUnread(route))

\* C16 witness: calc_effect returned 0 at an elapsed time past the four
\* phases and inside the first half of an afterglow the route has
C16_Witness ==
    /\ WalkDone
    /\ ~panicked
    /\ route.duration.afterglow # None
    /\ route.duration.duration # None
    /\ Present(4)
    /\ FLt(Cum(4), time_since_start)
    /\ LET ag == as_hours(route.duration.afterglow[1])
       IN  /\ ~ag.panic
           /\ FLt(Remaining(5), midpoint(ag.value))
    /\ effect = F(0)

\* ----------------------------------------------------------------------
\* Range and ingestion conversions compared
\* ----------------------------------------------------------------------
\* seconds in one unit of time
SecondsPer(units) ==
    IF units = "Hours" THEN F(3600)
    ELSE IF units = "Minutes" THEN F(60)
    ELSE F(1)

\* C17: for a range built with midpoint = (start + end) / 2 in seconds,
\* minutes or hours, after any sequence of as_hours, as_minutes, as_seconds,
\* to_hours, to_minutes, to_seconds and normalise_to_units the stored
\* midpoint equals (start + end) / 2, which is midpoint(); the unit is the
\* one the last conversion asked for; and that conversion multiplied start,
\* end and midpoint by one factor, the ratio of the two units. Amounts are
\* exact fractions, rounding of f64 left aside.
C17_MidpointConsistent ==
    origin.range.units \in ValidTimeUnits =>
        /\ FEq(range.midpoint, FDiv(FAdd(range.start, range.end), F(2)))
        /\ FEq(range.midpoint, midpoint(range))
        /\ (called \in RangeConversions /\ arg.units \in ValidTimeUnits) =>
               LET factor == FDiv(SecondsPer(arg.self.units),
                                  SecondsPer(arg.units))
               IN  /\ ~panicked
                   /\ range.units = arg.units
                   /\ FEq(range.start, FMul(arg.self.start, factor))
                   /\ FEq(range.end, FMul(arg.self.end, factor))
                   /\ FEq(range.midpoint, FMul(arg.self.midpoint, factor))

\* C17 witness: as_minutes converted a range from hours that was built in
\* another unit and has a midpoint apart from its start
C17_Witness ==
    /\ called = "as_minutes"
    /\ arg.self.units = "Hours"
    /\ origin.range.units \in {"Minutes", "Seconds"}
    /\ range.units = "Minutes"
    /\ FLt(range.start, range.midpoint)
    /\ FEq(range.midpoint, midpoint(range))

\* C18: for every ingestion in mg, ug or g and every target among them, the
\* ingestion normalise_as_units(target) returns has the amount and the unit
\* of the ingestion normalise_to_units(target) leaves, and that unit is the
\* target.
C18_NormalisationsAgree ==
    ( /\ called = "normalise_as_units"
      /\ arg.self.units \in MassUnits
      /\ arg.units \in MassUnits )
    => LET left == normalise_to_units(arg.self, arg.units)
       IN  /\ ~panicked
           /\ ~left.panic
           /\ FEq(result.amount, left.value.amount)
           /\ result.units = left.value.units
           /\ result.units = arg.units

====
